---- MODULE Spec2Model ----
(***************************************************************************)
(* Video upload pipeline of the tubely file-storage server                 *)
(* (handler_upload_video.go): the ownership gate, staging of the upload    *)
(* in a temporary file, the ffprobe classification, the ffmpeg fast-start  *)
(* remux, the S3 PutObject and the UpdateVideo of the record, with the     *)
(* deferred clean-up Go runs when the handler returns.  The two variants of *)
(* the thumbnail upload (handlerUploadThumbnail keeping thumbnails in a     *)
(* process-wide map, or writing them under the assets root) share the       *)
(* videos table with it.                                                    *)
(*                                                                         *)
(* net/http serves every request on its own goroutine: the model runs one  *)
(* handler per connection of Conns, interleaved at every access to the     *)
(* shared state (database, bucket, temporary directory).                   *)
(***************************************************************************)
EXTENDS Integers, Sequences, FiniteSets, TLC

\* ------------------------------------------------------------------ bounds

\* Connections served concurrently, each by its own goroutine.
ConnSeq == <<"c1", "c2">>
Conns == {ConnSeq[i] : i \in 1..Len(ConnSeq)}

\* Requests accepted in one behaviour, over all connections.
MaxRequests == 2

\* Largest width and height the classification is checked on, one by one.
MaxDim == 40

\* Largest request body, in GiB.
MaxBodyGiB == 11

\* ------------------------------------------------------- program constants

\* const maxMemory = 10 << 30, in GiB (TLC's integers are 32 bits wide).
maxMemory == 10

\* The net/http status codes the handler answers with.
StatusOK == 200
StatusBadRequest == 400
StatusUnauthorized == 401
StatusInternalServerError == 500

\* cfg.s3Bucket and cfg.s3Region
s3Bucket == "tubely"
s3Region == "us-east-1"

\* ------------------------------------------------------------ environment

Users == {"u1", "u2"}

\* The one record of the database, and who owns it.
VideoIDs == {"v1"}
Owner(id) == "u1"

\* r.PathValue("videoID"): a string that is no UUID, the id of the record,
\* and a well-formed UUID no record has.
PathValues == {"not-a-uuid", "v1", "v9"}

\* The bearer token of the Authorization header: no header, a token that does
\* not validate, or the valid token of a user.
Tokens == {"", "garbage"} \cup {"jwt-" \o u : u \in Users}

\* The Content-Type of the "video" part of the form.
ContentTypes == {"video/mp4", "Video/MP4; codecs=avc1", "video/webm", "image/png", ""}

BodySizes == {1, MaxBodyGiB}

\* The random strings os.CreateTemp can draw.
TempSuffixes == {"1", "2"}

\* What rand.Read fills the 32 bytes of key with: 32 times one byte.
RandomKeys == {0, 255}

NoError == ""

\* The connections thumbnail uploads arrive on.
ThumbConnSeq == <<"t1", "t2">>
ThumbConns == {ThumbConnSeq[i] : i \in 1..Len(ThumbConnSeq)}

\* The Content-Type of the "thumbnail" part of the form.
ThumbContentTypes == {"image/png", "text/plain", ""}

\* The build holds one of the two handlerUploadThumbnail: the one that keeps
\* thumbnails in the map videoThumbnails, or the one that saves them as files.
ThumbVariants == {"memory", "assets"}

\* cfg.port and cfg.assetsRoot
port == "8091"
assetsRoot == "./assets"

\* ---------------------------------------------------------------- float32

\* A float32 is [s |-> sign, m |-> significand, e |-> exponent]: the value
\* s * m * 2^(e - 23) with 2^23 <= m < 2^24, zero as s = 0, an infinity as
\* e = InfExp, and NaN as [nan |-> TRUE].  Widths and heights stay below
\* 2^24 in absolute value, where float32(int) is exact.
TwoTo23 == 8388608
TwoTo24 == 16777216
InfExp == 128

F32Zero == [nan |-> FALSE, s |-> 0, m |-> 0, e |-> 0]
F32NaN == [nan |-> TRUE, s |-> 0, m |-> 0, e |-> 0]
F32Inf(sign) == [nan |-> FALSE, s |-> sign, m |-> TwoTo23, e |-> InfExp]

Abs(i) == IF i < 0 THEN -i ELSE i
Sign(i) == IF i < 0 THEN -1 ELSE IF i = 0 THEN 0 ELSE 1

\* Scale a/b by powers of two into [1, 2): a/b = (a'/b') * 2^k.
RECURSIVE F32Normalize(_, _, _)
F32Normalize(a, b, k) ==
    IF a >= 2 * b THEN F32Normalize(a, 2 * b, k + 1)
    ELSE IF a < b THEN F32Normalize(2 * a, b, k - 1)
    ELSE [a |-> a, b |-> b, k |-> k]

\* n more quotient bits of rem/b by long division.
RECURSIVE F32LongDiv(_, _, _, _)
F32LongDiv(rem, b, q, n) ==
    IF n = 0 THEN [q |-> q, rem |-> rem]
    ELSE IF 2 * rem >= b THEN F32LongDiv(2 * rem - b, b, 2 * q + 1, n - 1)
    ELSE F32LongDiv(2 * rem, b, 2 * q, n - 1)

\* Round to nearest, ties to even, the 24-bit quotient q with remainder rem.
F32Round(q, rem, b, k, sign) ==
    LET up == (2 * rem > b) \/ (2 * rem = b /\ q % 2 = 1)
        m == IF up THEN q + 1 ELSE q
    IN IF m = TwoTo24
       THEN [nan |-> FALSE, s |-> sign, m |-> TwoTo23, e |-> k + 1]
       ELSE [nan |-> FALSE, s |-> sign, m |-> m, e |-> k]

\* float32(w) / float32(h), the IEEE 754 single-precision quotient.
F32Div(w, h) ==
    IF h = 0 THEN (IF w = 0 THEN F32NaN ELSE F32Inf(Sign(w)))
    ELSE IF w = 0 THEN F32Zero
    ELSE LET n == F32Normalize(Abs(w), Abs(h), 0)
             d == F32LongDiv(n.a - n.b, n.b, 1, 23)
         IN F32Round(d.q, d.rem, n.b, n.k, Sign(w) * Sign(h))

\* The untyped constant num/den converted to float32 (the nearest float32).
F32Const(num, den) == F32Div(num, den)

\* x < y on float32: false when either is NaN.
F32Less(x, y) ==
    /\ ~x.nan /\ ~y.nan
    /\ \/ x.s < y.s
       \/ x.s = 1 /\ y.s = 1 /\ (x.e < y.e \/ (x.e = y.e /\ x.m < y.m))
       \/ x.s = -1 /\ y.s = -1 /\ (x.e > y.e \/ (x.e = y.e /\ x.m > y.m))

\* -------------------------------------------------------- getVideoAspectRatio

\* The classification of lines 188-196.
AspectRatioOf(width, height) ==
    LET aspectRatio == F32Div(width, height)
    IN IF F32Less(F32Const(177, 100), aspectRatio) /\ F32Less(aspectRatio, F32Const(178, 100))
       THEN "16:9"
       ELSE IF F32Less(F32Const(56, 100), aspectRatio) /\ F32Less(aspectRatio, F32Const(57, 100))
       THEN "9:16"
       ELSE "other"

\* What ffprobe can do: fail to run or exit non-zero, print something that is
\* no JSON, or print the streams of the file (a stream without width and
\* height decodes to 0, 0).
Stream(w, h) == [Width |-> w, Height |-> h]
ProbeStreams ==
    {<<>>, <<Stream(1280, 720)>>, <<Stream(720, 1280)>>, <<Stream(640, 480)>>,
     <<Stream(0, 0), Stream(1920, 1080)>>}
FfprobeRuns ==
    {[exit |-> 1, json |-> FALSE, streams |-> <<>>],
     [exit |-> 0, json |-> FALSE, streams |-> <<>>]}
    \cup {[exit |-> 0, json |-> TRUE, streams |-> s] : s \in ProbeStreams}

\* (the check for an empty list of streams left out)
getVideoAspectRatio_NoStreamCheck(run) ==
    IF run.exit # 0 THEN [ratio |-> "", err |-> "exit status"]
    ELSE IF ~run.json THEN [ratio |-> "", err |-> "invalid character"]
    ELSE IF Len(run.streams) = 0 THEN [ratio |-> "other", err |-> NoError]
    ELSE [ratio |-> AspectRatioOf(run.streams[1].Width, run.streams[1].Height),
          err |-> NoError]

getVideoAspectRatio(run) ==
    IF run.exit # 0 THEN [ratio |-> "", err |-> "exit status"]
    ELSE IF ~run.json THEN [ratio |-> "", err |-> "invalid character"]
    ELSE IF Len(run.streams) = 0 THEN [ratio |-> "", err |-> "no video streams found"]
    ELSE [ratio |-> AspectRatioOf(run.streams[1].Width, run.streams[1].Height),
          err |-> NoError]

\* ------------------------------------------------------------ collaborators

\* database.Video, with the fields the handlers read and write.
Video(id, user, videoURL, thumbnailURL) ==
    [ID |-> id, UserID |-> user, VideoURL |-> videoURL, ThumbnailURL |-> thumbnailURL]
NoVideo == Video("", "", "", "")

\* uuid.Parse(videoIDString)
uuidParse(str) ==
    IF str = "not-a-uuid" THEN [id |-> "", err |-> "invalid UUID"]
    ELSE [id |-> str, err |-> NoError]

\* auth.GetBearerToken(r.Header)
GetBearerToken(header) ==
    IF header = "" THEN [token |-> "", err |-> "no auth header"]
    ELSE [token |-> header, err |-> NoError]

\* auth.ValidateJWT(token, cfg.jwtSecret)
ValidateJWT(token) ==
    IF \E u \in Users : token = "jwt-" \o u
    THEN [userID |-> CHOOSE u \in Users : token = "jwt-" \o u, err |-> NoError]
    ELSE [userID |-> "", err |-> "invalid token"]

\* cfg.db.GetVideo(videoID) on the database d
GetVideo(d, id) ==
    IF id \in DOMAIN d THEN [video |-> d[id], err |-> NoError]
    ELSE [video |-> NoVideo, err |-> "sql: no rows"]

\* cfg.db.UpdateVideo(video) on the database d: the row of video.ID becomes video.
UpdateVideo(d, video) == [d EXCEPT ![video.ID] = video]

\* respondWithError(w, code, msg, err) and respondWithJSON(w, code, payload)
\* (the status and the error message; the JSON payload is left out)
respondWithError(code, msg) == [code |-> code, msg |-> msg]
respondWithJSON(code, payload) == [code |-> code, msg |-> ""]
NoResponse == [code |-> 0, msg |-> ""]

\* mime.ParseMediaType: lower-cases the type and splits the parameters off.
ParseMediaType(v) ==
    CASE v = "video/mp4" -> [mediaType |-> "video/mp4", err |-> NoError]
      [] v = "Video/MP4; codecs=avc1" -> [mediaType |-> "video/mp4", err |-> NoError]
      [] v = "video/webm" -> [mediaType |-> "video/webm", err |-> NoError]
      [] v = "image/png" -> [mediaType |-> "image/png", err |-> NoError]
      [] OTHER -> [mediaType |-> "", err |-> "mime: no media type"]

\* A request body of size GiB, and http.MaxBytesReader(w, body, n): a NEW
\* reader that fails once more than n bytes are read; body itself is unchanged.
RequestBody(size) == [size |-> size, limited |-> FALSE, limit |-> 0]
MaxBytesReader(body, n) == [body EXCEPT !.limited = TRUE, !.limit = n]
ReadFails(body) == body.limited /\ body.size > body.limit

\* r.Body after lines 23-24: the reader MaxBytesReader returns is dropped and
\* r.Body is not reassigned.
LimitedBody(body) ==
    LET dropped == MaxBytesReader(body, maxMemory)
    IN body

\* ------------------------------------------------------------------ state

VARIABLES
    db,         \* the videos table: id -> database.Video
    bucket,     \* the keys of the objects in the S3 bucket
    tmpDir,     \* the paths of the files in os.TempDir()
    pc,         \* where the handler of each connection stands
    req,        \* what the handler has read of its request and environment
    local,      \* the handler's local variables
    defers,     \* the handler's deferred calls, in the order of the defer statements
    trace,      \* the side effects the handler has issued, in order
    resp,       \* the response written
    accepted,   \* requests accepted so far
    puts,       \* history: the <<aspect ratio, key>> of every object put so far
    probed,     \* a width, a height and their classification (SpecClassify)
    variant,    \* which handlerUploadThumbnail the build holds
    tpc,        \* where the thumbnail handler of each connection stands
    treq,       \* what the thumbnail handler has read of its request
    tlocal,     \* the thumbnail handler's local variables
    ttrace,     \* the writes the thumbnail handler has issued, in order
    tresp,      \* the response written by the thumbnail handler
    videoThumbnails,    \* the process-wide map: video id -> thumbnail
    assets,     \* the paths of the files under cfg.assetsRoot
    fatal       \* the Go runtime has stopped the process (concurrent map writes)

vars == <<db, bucket, tmpDir, pc, req, local, defers, trace, resp, accepted, puts>>

NoRequest ==
    [videoID |-> "", token |-> "", hasFile |-> FALSE, contentType |-> "", size |-> 0,
     fault |-> ""]
NoLocals ==
    [userID |-> "", dbVideo |-> NoVideo, mediaType |-> "", staged |-> "", tmpFile |-> "",
     aspectRatio |-> "", processedFilePath |-> "", objName |-> ""]

NotProbed == [width |-> 0, height |-> 0, ratio |-> ""]

thumbVars == <<variant, tpc, treq, tlocal, ttrace, tresp, videoThumbnails, assets, fatal>>
allVars == <<vars, probed, thumbVars>>

NoThumbRequest == [videoID |-> "", token |-> ""]
NoThumbLocals ==
    [userID |-> "", mediaType |-> "", dbVideo |-> NoVideo, fileExt |-> "", raced |-> FALSE]

\* No thumbnail upload has arrived; the build holds the variant v.
InitThumb(v) ==
    /\ variant = v
    /\ tpc = [t \in ThumbConns |-> "idle"]
    /\ treq = [t \in ThumbConns |-> NoThumbRequest]
    /\ tlocal = [t \in ThumbConns |-> NoThumbLocals]
    /\ ttrace = [t \in ThumbConns |-> <<>>]
    /\ tresp = [t \in ThumbConns |-> NoResponse]
    /\ videoThumbnails = <<>>
    /\ assets = {}
    /\ fatal = FALSE

InitServer ==
    /\ db = [id \in VideoIDs |-> Video(id, Owner(id), "", "")]
    /\ bucket = {}
    /\ tmpDir = {}
    /\ pc = [c \in Conns |-> "idle"]
    /\ req = [c \in Conns |-> NoRequest]
    /\ local = [c \in Conns |-> NoLocals]
    /\ defers = [c \in Conns |-> <<>>]
    /\ trace = [c \in Conns |-> <<>>]
    /\ resp = [c \in Conns |-> NoResponse]
    /\ accepted = 0
    /\ puts = {}

Init == InitServer /\ probed = NotProbed /\ InitThumb("memory")

\* ------------------------------------------------------------- deferred calls

DeferRemove(path) == [op |-> "Remove", path |-> path]
DeferClose(file) == [op |-> "Close", path |-> file]

\* The deferred calls run last-in first-out when the handler returns;
\* os.Remove unlinks the path, Close leaves the directory as it is.
RECURSIVE RunDefers(_, _)
RunDefers(ds, disk) ==
    IF ds = <<>> THEN disk
    ELSE LET d == ds[Len(ds)]
         IN RunDefers(SubSeq(ds, 1, Len(ds) - 1),
                      IF d.op = "Remove" THEN disk \ {d.path} ELSE disk)

\* The handler of c returns having written response: its deferred calls ds
\* run on the directory disk, and its local variables are gone.
Return(c, response, ds, disk) ==
    /\ resp' = [resp EXCEPT ![c] = response]
    /\ tmpDir' = RunDefers(ds, disk)
    /\ defers' = [defers EXCEPT ![c] = <<>>]
    /\ local' = [local EXCEPT ![c] = NoLocals]
    /\ pc' = [pc EXCEPT ![c] = "done"]


\* The call of stage fails: the handler of c answers with an error and returns.
Fail(c, stage, code, msg, ds, disk) ==
    /\ req' = [req EXCEPT ![c].fault = stage]
    /\ Return(c, respondWithError(code, msg), ds, disk)

\* ------------------------------------------------------- handlerUploadVideo

\* (the owner comparison left out)
NotOwner_Never(dbVideo, userID) == FALSE

\* Line 52: the caller is not the owner of the record.
NotOwner(dbVideo, userID) == dbVideo.UserID # userID

\* (the answer of line 49 pasted at line 53)
RespNotOwner_AsNoVideo == respondWithError(StatusUnauthorized, "Couldn't get video")

\* Line 53: the answer to a caller who is not the owner.
RespNotOwner == respondWithError(StatusUnauthorized, "Video not owned by user")

\* Lines 26-55: the id of the path, the token, the record and its owner.
GateOf(path, header, d) ==
    LET parsed == uuidParse(path)
        bearer == GetBearerToken(header)
        jwt == ValidateJWT(bearer.token)
        got == GetVideo(d, parsed.id)
        failWith(response) ==
            [ok |-> FALSE, userID |-> "", dbVideo |-> NoVideo, response |-> response]
        fail(code, msg) == failWith(respondWithError(code, msg))
    IN IF parsed.err # NoError THEN fail(StatusBadRequest, "Invalid ID")
       ELSE IF bearer.err # NoError THEN fail(StatusUnauthorized, "Couldn't find JWT")
       ELSE IF jwt.err # NoError THEN fail(StatusUnauthorized, "Couldn't validate JWT")
       ELSE IF got.err # NoError THEN fail(StatusUnauthorized, "Couldn't get video")
       ELSE IF NotOwner(got.video, jwt.userID)
       THEN failWith(RespNotOwner)
       ELSE [ok |-> TRUE, userID |-> jwt.userID, dbVideo |-> got.video,
             response |-> NoResponse]

\* Connections are numbered in the order of their first request.
MayAccept(c) ==
    \A i, j \in 1..Len(ConnSeq) : (i < j /\ ConnSeq[j] = c) => pc[ConnSeq[i]] # "idle"

\* The record as the handler holds it after line 47.  Its VideoURL is
\* overwritten at line 150 before anything reads it, so the value fetched is
\* not kept.
Fetched(video) == [video EXCEPT !.VideoURL = ""]

\* Lines 21-55: a request arrives on connection c and passes or fails the gate.
Gate(c) ==
    /\ pc[c] \in {"idle", "done"}
    /\ MayAccept(c)
    /\ accepted < MaxRequests
    /\ accepted' = accepted + 1
    /\ \E path \in PathValues, header \in Tokens :
        LET g == GateOf(path, header, db)
            read == IF uuidParse(path).err # NoError THEN "" ELSE header
        IN /\ req' = [req EXCEPT ![c] = [NoRequest EXCEPT !.videoID = path, !.token = read]]
           /\ trace' = [trace EXCEPT ![c] = <<>>]
           /\ IF g.ok
              THEN /\ pc' = [pc EXCEPT ![c] = "form"]
                   /\ local' = [local EXCEPT ![c] =
                                    [NoLocals EXCEPT !.userID = g.userID,
                                                     !.dbVideo = Fetched(g.dbVideo)]]
                   /\ resp' = [resp EXCEPT ![c] = NoResponse]
                   /\ UNCHANGED <<defers, tmpDir>>
              ELSE Return(c, g.response, <<>>, tmpDir)
    /\ UNCHANGED <<db, bucket, puts, probed, thumbVars>>

\* (the media type comparison left out)
InvalidFileType_Never(mediaType) == FALSE

\* Line 72: the parsed media type is not the supported one.
InvalidFileType(mediaType) == mediaType # "video/mp4"

\* The forms a request can carry: no "video" part, or one with a Content-Type.
Forms ==
    {[hasFile |-> FALSE, contentType |-> ""]}
    \cup {[hasFile |-> TRUE, contentType |-> ct] : ct \in ContentTypes}

\* Lines 57-76: r.FormFile reads the body and finds the part; the media type
\* of the part is parsed and compared.
FormFile(c) ==
    /\ pc[c] = "form"
    /\ \E form \in Forms, size \in BodySizes :
        LET body == LimitedBody(RequestBody(size))
            parsed == ParseMediaType(form.contentType)
            closeFile == <<DeferClose("videoFile")>>
            read == [req[c] EXCEPT !.hasFile = form.hasFile,
                                   !.contentType = form.contentType, !.size = size]
        IN IF ReadFails(body) \/ ~form.hasFile
           THEN /\ req' = [req EXCEPT ![c] = read]
                /\ Return(c, respondWithError(StatusBadRequest,
                                 "Couldn't get video file from form"), <<>>, tmpDir)
           ELSE IF parsed.err # NoError
           THEN /\ req' = [req EXCEPT ![c] = read]
                /\ Return(c, respondWithError(StatusBadRequest, "Couldn't parse media type"),
                          closeFile, tmpDir)
           ELSE IF InvalidFileType(parsed.mediaType)
           THEN /\ req' = [req EXCEPT ![c] = read]
                /\ Return(c, respondWithError(StatusBadRequest, "Invalid file type"),
                          closeFile, tmpDir)
           ELSE /\ req' = [req EXCEPT ![c] = read]
                /\ pc' = [pc EXCEPT ![c] = "stage"]
                /\ defers' = [defers EXCEPT ![c] = closeFile]
                /\ local' = [local EXCEPT ![c].mediaType = parsed.mediaType]
                /\ UNCHANGED <<resp, tmpDir>>
    /\ UNCHANGED <<db, bucket, puts, trace, accepted, probed, thumbVars>>

\* os.CreateTemp("", pattern): the pattern has no "*", so the random string is
\* appended to it.
TempName(pattern, random) == pattern \o random

\* (a plain create, which takes a name that is in use)
CreateTempPicks_Any(name, disk) == TRUE

\* os.CreateTemp opens with O_EXCL and draws again when the name exists: it
\* returns a name no file of the directory has.
CreateTempPicks(name, disk) == name \notin disk

\* (the deferred os.Remove left out)
DefersOfTempFile_NoRemove(name) == <<DeferClose(name)>>

\* Lines 84-85: the calls deferred once the temporary file exists.  The
\* argument tmpFile.Name() is evaluated at the defer statement.
DefersOfTempFile(name) == <<DeferRemove(name), DeferClose(name)>>

\* Lines 78-97: the temporary file is created under a name no file has, the
\* upload is copied into it and the file is rewound.  Each of the three calls
\* can fail; the file is on disk from the first one on.
StageUpload(c) ==
    /\ pc[c] = "stage"
    /\ \/ /\ Fail(c, "CreateTemp", StatusInternalServerError, "Couldn't create temp dir",
                  defers[c], tmpDir)
          /\ UNCHANGED trace
       \/ \E random \in TempSuffixes, failing \in {"", "copy", "seek"} :
            LET name == TempName("tubely-video-upload.mp4", random)
                ds == defers[c] \o DefersOfTempFile(name)
            IN /\ CreateTempPicks(name, tmpDir)
               /\ trace' = [trace EXCEPT ![c] = Append(@, "CreateTemp")]
               /\ IF failing = "copy"
                  THEN Fail(c, "copy", StatusInternalServerError, "Couldn't copy file",
                            ds, tmpDir \cup {name})
                  ELSE IF failing = "seek"
                  THEN Fail(c, "seek", StatusInternalServerError, "Couldn't seek file",
                            ds, tmpDir \cup {name})
                  ELSE /\ tmpDir' = tmpDir \cup {name}
                       /\ local' = [local EXCEPT ![c].staged = name, ![c].tmpFile = name]
                       /\ defers' = [defers EXCEPT ![c] = ds]
                       /\ pc' = [pc EXCEPT ![c] = "probe"]
                       /\ UNCHANGED <<resp, req>>
    /\ UNCHANGED <<db, bucket, puts, accepted, probed, thumbVars>>

\* The run of ffprobe gives no dimensions: it failed, printed no JSON, or
\* printed no stream.
ProbeFailure(run) == run.exit # 0 \/ ~run.json \/ Len(run.streams) = 0

\* Lines 99-104: ffprobe runs on the staged file.
Probe(c) ==
    /\ pc[c] = "probe"
    /\ \E run \in FfprobeRuns :
        LET got == getVideoAspectRatio(run)
        IN /\ trace' = [trace EXCEPT ![c] = Append(@, "ffprobe")]
           /\ req' = [req EXCEPT ![c].fault = IF ProbeFailure(run) THEN "probe" ELSE @]
           /\ IF got.err # NoError
              THEN Return(c, respondWithError(StatusInternalServerError,
                                 "Couldn't get video aspect ratio"), defers[c], tmpDir)
              ELSE /\ local' = [local EXCEPT ![c].aspectRatio = got.ratio]
                   /\ pc' = [pc EXCEPT ![c] = "remux"]
                   /\ UNCHANGED <<resp, defers, tmpDir>>
    /\ UNCHANGED <<db, bucket, puts, accepted, probed, thumbVars>>

\* What ffmpeg can do: exit with a status, having left an output file or not.
FfmpegRuns == [exit : {0, 1}, wrote : BOOLEAN]

\* Line 201: the output path of the remux.
OutputFilepath(filePath) == filePath \o ".processing"

\* ffmpeg runs without -y and with an empty standard input: it refuses to
\* overwrite an output path that exists and exits non-zero.
FfmpegOn(filePath, run, disk) ==
    LET out == OutputFilepath(filePath)
    IN IF out \in disk THEN [exit |-> 1, disk |-> disk]
       ELSE [exit |-> run.exit, disk |-> IF run.wrote THEN disk \cup {out} ELSE disk]

\* Lines 200-208: the path and error processVideoForFastStart returns.
processVideoForFastStart(filePath, exit) ==
    IF exit # 0 THEN [path |-> "", err |-> "exit status 1"]
    ELSE [path |-> OutputFilepath(filePath), err |-> NoError]

\* Line 112: the call deferred once the remux has succeeded.
DefersOfProcessed(processedFilePath) == <<DeferRemove(processedFilePath)>>

\* Lines 115-120: the calls deferred once the processed file is open.
DefersOfReopened(processedFilePath) == <<DeferClose(processedFilePath)>>

\* Lines 106-120: ffmpeg runs on the staged file, then the processed file is
\* opened and tmpFile is rebound to it.
Remux(c) ==
    /\ pc[c] = "remux"
    /\ \E run \in FfmpegRuns, opens \in BOOLEAN :
        LET ran == FfmpegOn(local[c].tmpFile, run, tmpDir)
            got == processVideoForFastStart(local[c].tmpFile, ran.exit)
            ds == defers[c] \o DefersOfProcessed(got.path)
        IN /\ trace' = [trace EXCEPT ![c] = Append(@, "ffmpeg")]
           /\ IF got.err # NoError
              THEN Fail(c, "remux", StatusInternalServerError,
                        "Couldn't process video for fast start", defers[c], ran.disk)
              ELSE IF ~(opens /\ got.path \in ran.disk)
              THEN Fail(c, "reopen", StatusInternalServerError,
                        "Couldn't open processed video file", ds, ran.disk)
              ELSE /\ local' = [local EXCEPT ![c].processedFilePath = got.path,
                                             ![c].tmpFile = got.path]
                   /\ defers' = [defers EXCEPT ![c] = ds \o DefersOfReopened(got.path)]
                   /\ tmpDir' = ran.disk
                   /\ pc' = [pc EXCEPT ![c] = "put"]
                   /\ UNCHANGED <<req, resp>>
    /\ UNCHANGED <<db, bucket, puts, accepted, probed, thumbVars>>

\* (the key left out of the name)
EncodeToString_Constant(fill) == "AAAAAAAAAAAAAAAAAAAAAAAAAAAAAAAAAAAAAAAAAAA"

\* base64.RawURLEncoding.EncodeToString of 32 bytes of value fill.
EncodeToString(fill) ==
    CASE fill = 0 -> "AAAAAAAAAAAAAAAAAAAAAAAAAAAAAAAAAAAAAAAAAAA"
      [] fill = 255 -> "__________________________________________8"
      [] fill = 85 -> "VVVVVVVVVVVVVVVVVVVVVVVVVVVVVVVVVVVVVVVVVVU"
      [] fill = 170 -> "qqqqqqqqqqqqqqqqqqqqqqqqqqqqqqqqqqqqqqqqqqo"

\* (every object named as the default case names it)
ObjName_AlwaysOther(aspectRatio, key, fileExt) ==
    "other/" \o EncodeToString(key) \o "." \o fileExt

\* Lines 125-133: the name of the object.
ObjName(aspectRatio, key, fileExt) ==
    CASE aspectRatio = "16:9" -> "landscape/" \o EncodeToString(key) \o "." \o fileExt
      [] aspectRatio = "9:16" -> "portrait/" \o EncodeToString(key) \o "." \o fileExt
      [] OTHER -> "other/" \o EncodeToString(key) \o "." \o fileExt

\* (the error of PutObject ignored)
PutFailed_Ignored(err) == FALSE

\* Line 143: the upload failed.
PutFailed(err) == err # NoError

\* Lines 122-146: the key is drawn and the processed file is put in the bucket.
PutObject(c) ==
    /\ pc[c] = "put"
    /\ \E key \in RandomKeys, err \in {NoError, "RequestTimeout"} :
        LET objName == ObjName(local[c].aspectRatio, key, "mp4")
        IN /\ trace' = [trace EXCEPT ![c] = Append(@, "PutObject")]
           /\ bucket' = IF err = NoError THEN bucket \cup {objName} ELSE bucket
           /\ puts' = IF err = NoError THEN puts \cup {<<local[c].aspectRatio, key>>}
                                       ELSE puts
           /\ req' = [req EXCEPT ![c].fault = IF err = NoError THEN @ ELSE "put"]
           /\ IF PutFailed(err)
              THEN Return(c, respondWithError(StatusInternalServerError,
                                 "Couldn't upload to S3"), defers[c], tmpDir)
              ELSE /\ local' = [local EXCEPT ![c].objName = objName]
                   /\ pc' = [pc EXCEPT ![c] = "update"]
                   /\ UNCHANGED <<resp, defers, tmpDir>>
    /\ UNCHANGED <<db, accepted, probed, thumbVars>>

\* Line 149: the URL of an object of the bucket.
VideoURLOf(objName) ==
    "https://" \o s3Bucket \o ".s3." \o s3Region \o ".amazonaws.com/" \o objName

\* (the error of UpdateVideo ignored)
UpdateFailed_Ignored(err) == FALSE

\* Line 152: the update failed.
UpdateFailed(err) == err # NoError

\* Lines 148-157: the record fetched at the gate gets the URL and is written
\* back whole.
UpdateRecord(c) ==
    /\ pc[c] = "update"
    /\ \E err \in {NoError, "database is locked"} :
        LET dbVideo == [local[c].dbVideo EXCEPT !.VideoURL = VideoURLOf(local[c].objName)]
        IN /\ trace' = [trace EXCEPT ![c] = Append(@, "UpdateVideo")]
           /\ db' = IF err = NoError THEN UpdateVideo(db, dbVideo) ELSE db
           /\ req' = [req EXCEPT ![c].fault = IF err = NoError THEN @ ELSE "update"]
           /\ IF UpdateFailed(err)
              THEN Return(c, respondWithError(StatusInternalServerError,
                                 "Couldn't update video URL in database"), defers[c], tmpDir)
              ELSE Return(c, respondWithJSON(StatusOK, dbVideo), defers[c], tmpDir)
    /\ UNCHANGED <<bucket, puts, accepted, probed, thumbVars>>

Next ==
    \E c \in Conns :
        \/ Gate(c)
        \/ FormFile(c)
        \/ StageUpload(c)
        \/ Probe(c)
        \/ Remux(c)
        \/ PutObject(c)
        \/ UpdateRecord(c)

Spec == Init /\ [][Next]_allVars

\* ---------------------------------------------------- handlerUploadThumbnail

\* (the owner comparison left out)
ThumbNotOwner_Never(dbVideo, userID) == FALSE

\* part_000 line 62, part_001 line 72: the caller is not the owner.
ThumbNotOwner(dbVideo, userID) == dbVideo.UserID # userID

\* What the form of a thumbnail request can be: a body ParseMultipartForm
\* rejects, a form without the "thumbnail" part, a part whose read fails, or a
\* part with a Content-Type.
ThumbForms ==
    {[form |-> f, contentType |-> ""] : f \in {"unparsable", "nofile", "unreadable"}}
    \cup {[form |-> "file", contentType |-> ct] : ct \in ThumbContentTypes}

\* part_000 line 48 takes the Content-Type as it is written; part_001 line 52
\* parses it.
ThumbMediaType(v, contentType) ==
    IF v = "memory" THEN [mediaType |-> contentType, err |-> NoError]
    ELSE ParseMediaType(contentType)

\* part_000 lines 12-54, part_001 lines 15-64: the id of the path, the token,
\* the form, the media type and the bytes of the part.
ThumbGateOf(v, path, header, form) ==
    LET parsed == uuidParse(path)
        bearer == GetBearerToken(header)
        jwt == ValidateJWT(bearer.token)
        media == ThumbMediaType(v, form.contentType)
        fail(code, msg) ==
            [ok |-> FALSE, userID |-> "", mediaType |-> "",
             response |-> respondWithError(code, msg)]
    IN IF parsed.err # NoError THEN fail(StatusBadRequest, "Invalid ID")
       ELSE IF bearer.err # NoError THEN fail(StatusUnauthorized, "Couldn't find JWT")
       ELSE IF jwt.err # NoError THEN fail(StatusUnauthorized, "Couldn't validate JWT")
       ELSE IF form.form = "unparsable"
       THEN fail(StatusBadRequest, "Couldn't parse multipart form")
       ELSE IF form.form = "nofile"
       THEN fail(StatusBadRequest, "Couldn't get thumbnail file from form")
       ELSE IF media.err # NoError THEN fail(StatusBadRequest, "Couldn't parse media type")
       ELSE IF form.form = "unreadable"
       THEN fail(StatusInternalServerError, "Couldn't read thumbnail file")
       ELSE [ok |-> TRUE, userID |-> jwt.userID, mediaType |-> media.mediaType,
             response |-> NoResponse]

\* The thumbnail handler of t returns having written response.
ThumbReturn(t, response) ==
    /\ tresp' = [tresp EXCEPT ![t] = response]
    /\ tlocal' = [tlocal EXCEPT ![t] = NoThumbLocals]
    /\ tpc' = [tpc EXCEPT ![t] = "done"]

\* Thumbnail connections are numbered in the order of their first request.
ThumbMayAccept(t) ==
    \A i, j \in 1..Len(ThumbConnSeq) :
        (i < j /\ ThumbConnSeq[j] = t) => tpc[ThumbConnSeq[i]] # "idle"

\* part_000 lines 11-54, part_001 lines 14-64: a thumbnail request arrives on
\* connection t and is read; nothing shared is touched.
ThumbArrive(t) ==
    /\ ~fatal
    /\ tpc[t] \in {"idle", "done"}
    /\ ThumbMayAccept(t)
    /\ accepted < MaxRequests
    /\ accepted' = accepted + 1
    /\ \E path \in PathValues, header \in Tokens, form \in ThumbForms :
        LET g == ThumbGateOf(variant, path, header, form)
            read == IF uuidParse(path).err # NoError THEN "" ELSE header
        IN /\ treq' = [treq EXCEPT ![t] = [videoID |-> path, token |-> read]]
           /\ ttrace' = [ttrace EXCEPT ![t] = <<>>]
           /\ IF g.ok
              THEN /\ tpc' = [tpc EXCEPT ![t] = "fetch"]
                   /\ tlocal' = [tlocal EXCEPT ![t] =
                                     [NoThumbLocals EXCEPT !.userID = g.userID,
                                                           !.mediaType = g.mediaType]]
                   /\ tresp' = [tresp EXCEPT ![t] = NoResponse]
              ELSE ThumbReturn(t, g.response)
    /\ UNCHANGED <<db, bucket, tmpDir, pc, req, local, defers, trace, resp, puts, probed>>
    /\ UNCHANGED <<variant, videoThumbnails, assets, fatal>>

\* The record as the thumbnail handler holds it.  Its ThumbnailURL is
\* overwritten (part_000 line 75, part_001 line 91) before anything reads it.
ThumbFetched(video) == [video EXCEPT !.ThumbnailURL = ""]

\* part_000 lines 56-65, part_001 lines 66-75: the record is fetched and its
\* owner compared with the caller.
ThumbFetch(t) ==
    /\ ~fatal
    /\ tpc[t] = "fetch"
    /\ LET got == GetVideo(db, uuidParse(treq[t].videoID).id)
       IN IF got.err # NoError
          THEN ThumbReturn(t, respondWithError(StatusInternalServerError, "Couldn't get video"))
          ELSE IF ThumbNotOwner(got.video, tlocal[t].userID)
          THEN ThumbReturn(t, respondWithError(StatusUnauthorized,
                      "You don't have permission to upload thumbnail for this video"))
          ELSE /\ tlocal' = [tlocal EXCEPT ![t].dbVideo = ThumbFetched(got.video)]
               /\ tpc' = [tpc EXCEPT ![t] = "store"]
               /\ UNCHANGED tresp
    /\ UNCHANGED <<vars, probed, variant, treq, ttrace, videoThumbnails, assets, fatal>>

\* thumbnail{data, mediaType}; the bytes are named after the connection that
\* sent them.
thumbnail(data, mediaType) == [data |-> data, mediaType |-> mediaType]

\* m[k] = v on a Go map.
MapAssign(m, k, v) == [x \in DOMAIN m \cup {k} |-> IF x = k THEN v ELSE m[x]]

\* The other handlers that are inside an assignment to videoThumbnails.
OtherWriters(t) == {u \in ThumbConns \ {t} : tpc[u] = "storing"}

\* part_000 lines 67-71, first half: the assignment to the map starts.  A Go
\* map assignment is no atomic step, and no lock is held.
ThumbStoreBegin(t) ==
    /\ ~fatal
    /\ variant = "memory"
    /\ tpc[t] = "store"
    /\ tpc' = [tpc EXCEPT ![t] = "storing"]
    /\ tlocal' = [u \in ThumbConns |->
                     IF u = t \/ u \in OtherWriters(t)
                     THEN [tlocal[u] EXCEPT !.raced = OtherWriters(t) # {}]
                     ELSE tlocal[u]]
    /\ UNCHANGED <<vars, probed, variant, treq, ttrace, tresp, videoThumbnails, assets, fatal>>

\* What a map assignment that overlapped another one can come to: the entry is
\* written, the entry is lost, or the runtime stops the process with "fatal
\* error: concurrent map writes".
RaceOutcomes(raced) == IF raced THEN {"written", "lost", "fatal"} ELSE {"written"}

\* part_000 lines 67-71, second half: the assignment to the map ends.
ThumbStoreEnd(t) ==
    /\ ~fatal
    /\ tpc[t] = "storing"
    /\ \E outcome \in RaceOutcomes(tlocal[t].raced) :
        /\ videoThumbnails' =
              IF outcome = "written"
              THEN MapAssign(videoThumbnails, uuidParse(treq[t].videoID).id,
                             thumbnail(t, tlocal[t].mediaType))
              ELSE videoThumbnails
        /\ fatal' = (outcome = "fatal")
        /\ ttrace' = [ttrace EXCEPT ![t] = Append(@, "MapWrite")]
        /\ tpc' = [tpc EXCEPT ![t] = "update"]
    /\ UNCHANGED <<vars, probed, variant, treq, tlocal, tresp, assets>>

\* part_001 lines 101-112
mediaTypeToFileExt(mediaType) ==
    CASE mediaType = "image/jpeg" -> "jpg"
      [] mediaType = "image/png" -> "png"
      [] mediaType = "image/gif" -> "gif"
      [] OTHER -> ""

\* part_001 line 115: filepath.Join(dir, filename)
FilePath(dir, filename) == dir \o "/" \o filename

\* part_001 lines 114-124: os.Create makes (or truncates) the file, then the
\* bytes are written; either call can fail.
saveFileLocally(dir, filename, failing, disk) ==
    IF failing = "create" THEN [disk |-> disk, err |-> "permission denied"]
    ELSE IF failing = "write"
    THEN [disk |-> disk \cup {FilePath(dir, filename)}, err |-> "no space left on device"]
    ELSE [disk |-> disk \cup {FilePath(dir, filename)}, err |-> NoError]

\* part_001 lines 77-87: the extension of the media type, and the file saved
\* under the assets root.
ThumbSave(t) ==
    /\ ~fatal
    /\ variant = "assets"
    /\ tpc[t] = "store"
    /\ \E failing \in {"", "create", "write"} :
        LET fileExt == mediaTypeToFileExt(tlocal[t].mediaType)
            videoID == uuidParse(treq[t].videoID).id
            saved == saveFileLocally(assetsRoot, videoID \o "." \o fileExt, failing, assets)
        IN IF fileExt = ""
           THEN /\ ThumbReturn(t, respondWithError(StatusBadRequest, "Unsupported media type"))
                /\ UNCHANGED <<assets, ttrace>>
           ELSE /\ assets' = saved.disk
                /\ ttrace' = [ttrace EXCEPT ![t] =
                                 IF saved.disk # assets \/ failing # "create"
                                 THEN Append(@, "SaveFile") ELSE @]
                /\ IF saved.err # NoError
                   THEN ThumbReturn(t, respondWithError(StatusInternalServerError,
                                        "Couldn't save thumbnail file"))
                   ELSE /\ tlocal' = [tlocal EXCEPT ![t].fileExt = fileExt]
                        /\ tpc' = [tpc EXCEPT ![t] = "update"]
                        /\ UNCHANGED tresp
    /\ UNCHANGED <<vars, probed, variant, treq, videoThumbnails, fatal>>

\* part_000 line 74, part_001 line 90: the URL of the thumbnail.
ThumbnailURLOf(v, videoID, fileExt) ==
    IF v = "memory" THEN "http://localhost:" \o port \o "/api/thumbnails/" \o videoID
    ELSE "http://localhost:" \o port \o "/assets/" \o videoID \o "." \o fileExt

\* part_000 lines 73-82, part_001 lines 89-98: the record fetched before gets
\* the URL of the thumbnail and is written back whole.
ThumbUpdate(t) ==
    /\ ~fatal
    /\ tpc[t] = "update"
    /\ \E err \in {NoError, "database is locked"} :
        LET videoID == uuidParse(treq[t].videoID).id
            dbVideo == [tlocal[t].dbVideo EXCEPT
                           !.ThumbnailURL = ThumbnailURLOf(variant, videoID, tlocal[t].fileExt)]
        IN /\ ttrace' = [ttrace EXCEPT ![t] = Append(@, "UpdateVideo")]
           /\ db' = IF err = NoError THEN UpdateVideo(db, dbVideo) ELSE db
           /\ IF err # NoError
              THEN ThumbReturn(t, respondWithError(StatusInternalServerError,
                                   "Couldn't update video with thumbnail URL"))
              ELSE ThumbReturn(t, respondWithJSON(StatusOK, dbVideo))
    /\ UNCHANGED <<bucket, tmpDir, pc, req, local, defers, trace, resp, accepted, puts, probed>>
    /\ UNCHANGED <<variant, treq, videoThumbnails, assets, fatal>>

\* The connections video uploads arrive on when thumbnail uploads run too.
VideoConns == {ConnSeq[1]}

\* Video uploads and thumbnail uploads, served by one process while it runs.
NextThumb ==
    \/ \E c \in VideoConns :
        \/ ~fatal /\ Gate(c)
        \/ ~fatal /\ FormFile(c)
        \/ ~fatal /\ StageUpload(c)
        \/ ~fatal /\ Probe(c)
        \/ ~fatal /\ Remux(c)
        \/ ~fatal /\ PutObject(c)
        \/ ~fatal /\ UpdateRecord(c)
    \/ \E t \in ThumbConns :
        \/ ThumbArrive(t)
        \/ ThumbFetch(t)
        \/ ThumbStoreBegin(t)
        \/ ThumbStoreEnd(t)
        \/ ThumbSave(t)
        \/ ThumbUpdate(t)

InitThumbServer ==
    /\ InitServer
    /\ probed = NotProbed
    /\ \E v \in ThumbVariants : InitThumb(v)

SpecThumb == InitThumbServer /\ [][NextThumb]_allVars

\* ------------------------------------------------- the classification alone

\* Widths and heights at and next to the edges of the two bands, and the
\* smallest ones whose float32 quotient rounds onto an edge.
EdgeDims ==
    {<<1280, 720>>, <<1920, 1080>>, <<720, 1280>>, <<1080, 1920>>, <<640, 480>>,
     <<71, 40>>, <<89, 50>>, <<177, 100>>, <<14, 25>>, <<57, 100>>, <<113, 200>>,
     <<1770001, 1000000>>, <<1779999, 1000000>>, <<403631, 226759>>,
     <<1780016, 1000009>>, <<-16, 9>>, <<16, 0>>, <<0, 0>>}

ProbedDims == ((0..MaxDim) \X (0..MaxDim)) \cup EdgeDims

InitClassify ==
    /\ InitServer
    /\ InitThumb("memory")
    /\ \E d \in ProbedDims : probed = [width |-> d[1], height |-> d[2], ratio |-> ""]

\* Lines 185-196 on the first stream of the ffprobe output.
Classify ==
    /\ probed.ratio = ""
    /\ probed' = [probed EXCEPT !.ratio =
                      getVideoAspectRatio([exit |-> 0, json |-> TRUE,
                          streams |-> <<Stream(probed.width, probed.height)>>]).ratio]
    /\ UNCHANGED <<vars, thumbVars>>

SpecClassify == InitClassify /\ [][Classify]_allVars

\* ================================================================== claims

\* What a request is, by what it carries.
Arrived(c) == pc[c] # "idle"
IdParses(c) == Arrived(c) /\ uuidParse(req[c].videoID).err = NoError
TokenUser(c) == ValidateJWT(GetBearerToken(req[c].token).token)
Unauthenticated(c) == IdParses(c) /\ TokenUser(c).err # NoError
RecordMissing(c) ==
    IdParses(c) /\ TokenUser(c).err = NoError /\ req[c].videoID \notin DOMAIN db
CallerIsNotOwner(c) ==
    /\ IdParses(c) /\ TokenUser(c).err = NoError
    /\ req[c].videoID \in DOMAIN db
    /\ db[req[c].videoID].UserID # TokenUser(c).userID
CallerIsOwner(c) ==
    /\ IdParses(c) /\ TokenUser(c).err = NoError
    /\ req[c].videoID \in DOMAIN db
    /\ db[req[c].videoID].UserID = TokenUser(c).userID
GateFailure(c) == Unauthenticated(c) \/ RecordMissing(c) \/ CallerIsNotOwner(c)

\* What the handler has done for its request.
Has(c, op) == \E i \in 1..Len(trace[c]) : trace[c][i] = op
Before(c, a, b) ==
    \E i, j \in 1..Len(trace[c]) : i < j /\ trace[c][i] = a /\ trace[c][j] = b
NoSideEffect(c) == trace[c] = <<>>
Staging == {"probe", "remux", "put", "update"}

\* C1 as stated: a caller who is not the owner of the record gets no write at
\* all (no temporary file, no object put, no update of the record) and the
\* answer Forbidden (403).
C1_NonOwnerForbidden ==
    \A c \in Conns :
        CallerIsNotOwner(c) =>
            pc[c] = "done" /\ NoSideEffect(c) /\ resp[c].code = 403

\* C1 amended: a caller who is not the owner of the record gets no write at
\* all and the answer 401 Unauthorized, "Video not owned by user".
C1_NonOwnerUnauthorized ==
    \A c \in Conns :
        CallerIsNotOwner(c) =>
            /\ pc[c] = "done"
            /\ NoSideEffect(c)
            /\ resp[c] = [code |-> StatusUnauthorized, msg |-> "Video not owned by user"]

C1_Witness == \E c \in Conns : CallerIsNotOwner(c) /\ pc[c] = "done"

\* C2: a temporary file is created and ffprobe or ffmpeg run only for a
\* request that has passed the gate (valid token, record found, caller is the
\* owner); a request that fails the gate has ended with none of them.
C2_GateBeforeResources ==
    \A c \in Conns :
        /\ (~NoSideEffect(c) \/ pc[c] \in Staging \/ local[c].staged # "")
              => CallerIsOwner(c)
        /\ GateFailure(c) => (pc[c] = "done" /\ NoSideEffect(c) /\ defers[c] = <<>>)

C2_Witness ==
    \E c, o \in Conns :
        /\ GateFailure(c) /\ pc[c] = "done"
        /\ Has(o, "CreateTemp") /\ Has(o, "ffprobe") /\ Has(o, "ffmpeg")

\* C3 as stated: a request whose body is larger than the maximum is rejected
\* before it is consumed: it never reaches staging, probing, remuxing, upload
\* or the update of the record.
C3_OversizeRejected ==
    \A c \in Conns :
        req[c].size > maxMemory =>
            /\ pc[c] \notin {"stage"} \cup Staging
            /\ NoSideEffect(c)

\* C4 as stated: when a request for which ffmpeg was run ends, on whatever
\* path, the output file of the remux is not on disk.
C4_NoRemuxOutputRemains ==
    [][\A c \in Conns :
          (pc[c] \in {"remux", "put", "update"} /\ pc'[c] = "done")
              => OutputFilepath(local[c].staged) \notin tmpDir']_<<vars, probed, thumbVars>>

\* C5: a staged file on disk belongs to a request still being processed (it
\* is removed when the handler returns, on every path), and it is the file
\* created for the request also after tmpFile is rebound to the remuxed file.
C5_StagedFileRemoved ==
    /\ \A random \in TempSuffixes :
          TempName("tubely-video-upload.mp4", random) \in tmpDir
              => \E c \in Conns :
                    /\ pc[c] \in Staging
                    /\ local[c].staged = TempName("tubely-video-upload.mp4", random)
    /\ \A c \in Conns :
          pc[c] \in {"put", "update"}
              => local[c].tmpFile # local[c].staged /\ local[c].staged \in tmpDir

C5_Witness ==
    \E c \in Conns :
        /\ pc[c] = "done" /\ Has(c, "PutObject")
        /\ \A random \in TempSuffixes :
              TempName("tubely-video-upload.mp4", random) \notin tmpDir

\* C6: the video URL of a record, once set, is the URL of an object that is in
\* the bucket, and a handler about to update the record has put the object
\* it will name.
C6_VideoURLNamesStoredObject ==
    /\ \A id \in DOMAIN db :
          db[id].VideoURL # ""
              => \E objName \in bucket : db[id].VideoURL = VideoURLOf(objName)
    /\ \A c \in Conns :
          (pc[c] = "update" \/ Has(c, "UpdateVideo"))
              => Has(c, "PutObject") /\ req[c].fault # "put"
    /\ \A c \in Conns : pc[c] = "update" => local[c].objName \in bucket

C6_Witness ==
    /\ \E id \in DOMAIN db : db[id].VideoURL # ""
    /\ Cardinality(bucket) > 1

\* C7: within a request PutObject comes before UpdateVideo, and when
\* PutObject fails the request ends with 500 "Couldn't upload to S3" and no
\* UpdateVideo is issued.
C7_PutBeforeUpdate ==
    \A c \in Conns :
        /\ Has(c, "UpdateVideo") => Before(c, "PutObject", "UpdateVideo")
        /\ req[c].fault = "put"
              => /\ pc[c] = "done"
                 /\ resp[c] = [code |-> StatusInternalServerError,
                               msg |-> "Couldn't upload to S3"]
                 /\ ~Has(c, "UpdateVideo")

C7_Witness ==
    \E c, o \in Conns :
        /\ req[c].fault = "put" /\ pc[c] = "done"
        /\ Has(o, "UpdateVideo")

\* The declared Content-Type of the video part is not video/mp4 as written,
\* and is not video/mp4 once parsed.
DeclaredOtherType(c) == req[c].hasFile /\ req[c].contentType # "video/mp4"
ParsedOtherType(c) ==
    /\ req[c].hasFile
    /\ \/ ParseMediaType(req[c].contentType).err # NoError
       \/ ParseMediaType(req[c].contentType).mediaType # "video/mp4"

\* C8 as stated: a request whose declared content type is not video/mp4 fails
\* with UnsupportedMediaType (415) before staging: no temporary file, no
\* external tool, no upload, no update.
C8_OtherTypeUnsupported ==
    \A c \in Conns :
        DeclaredOtherType(c) =>
            pc[c] = "done" /\ resp[c].code = 415 /\ NoSideEffect(c)

\* C8 amended: a request that has passed the gate with a video part whose
\* Content-Type does not parse, or parses (lower-cased, parameters dropped) to
\* a media type other than video/mp4, fails with 400 Bad Request before
\* staging: no temporary file, no external tool, no upload, no update.
C8_OtherTypeBadRequest ==
    \A c \in Conns :
        ParsedOtherType(c) =>
            /\ pc[c] = "done"
            /\ resp[c].code = StatusBadRequest
            /\ resp[c].msg =
                  IF ParseMediaType(req[c].contentType).err # NoError
                  THEN "Couldn't parse media type" ELSE "Invalid file type"
            /\ NoSideEffect(c)

C8_Witness ==
    \E c \in Conns : req[c].hasFile /\ req[c].contentType = "video/webm" /\ pc[c] = "done"

\* The error kind of the taxonomy a finished request falls under ("" for a
\* success and for the errors the taxonomy does not name).
ErrorKind(c) ==
    IF pc[c] # "done" THEN ""
    ELSE IF Unauthenticated(c) THEN "Unauthenticated"
    ELSE IF RecordMissing(c) THEN "NotFound"
    ELSE IF CallerIsNotOwner(c) THEN "Forbidden"
    ELSE IF ParsedOtherType(c) THEN "UnsupportedMediaType"
    ELSE IF req[c].fault \in {"CreateTemp", "copy", "seek", "reopen"} THEN "StorageIOError"
    ELSE IF req[c].fault = "probe" THEN "ProbeFailed"
    ELSE IF req[c].fault = "remux" THEN "RemuxFailed"
    ELSE IF req[c].fault = "put" THEN "UploadFailed"
    ELSE IF req[c].fault = "update" THEN "MetadataUpdateFailed"
    ELSE ""

\* The status each kind is answered with.
StatusOfKind(kind) ==
    IF kind \in {"Unauthenticated", "NotFound", "Forbidden"} THEN StatusUnauthorized
    ELSE IF kind = "UnsupportedMediaType" THEN StatusBadRequest
    ELSE StatusInternalServerError

\* C9 as stated: two requests that fail with different error kinds are
\* answered with different statuses.
C9_DistinctStatusPerKind ==
    \A c, o \in Conns :
        (ErrorKind(c) # "" /\ ErrorKind(o) # "" /\ ErrorKind(c) # ErrorKind(o))
            => resp[c].code # resp[o].code

\* C9 amended: two requests that fail with different error kinds are answered
\* with different messages; the status is 401 for the three gate failures,
\* 400 for an unsupported media type and 500 for every later failure.
C9_DistinctMessagePerKind ==
    /\ \A c, o \in Conns :
          (ErrorKind(c) # "" /\ ErrorKind(o) # "" /\ ErrorKind(c) # ErrorKind(o))
              => resp[c].msg # resp[o].msg
    /\ \A c \in Conns :
          ErrorKind(c) # "" => resp[c].code = StatusOfKind(ErrorKind(c))

C9_Witness ==
    \E c, o \in Conns : ErrorKind(c) = "NotFound" /\ ErrorKind(o) = "Forbidden"

\* The classification by the exact ratio width/height (height > 0).
ExactRatioClass(width, height) ==
    IF 177 * height < 100 * width /\ 100 * width < 178 * height THEN "16:9"
    ELSE IF 56 * height < 100 * width /\ 100 * width < 57 * height THEN "9:16"
    ELSE "other"

\* C10 as stated: for every width and every height > 0 the classification is
\* landscape iff 1.77 < width/height < 1.78, portrait iff
\* 0.56 < width/height < 0.57, and other otherwise.
C10_ExactBands ==
    (probed.ratio # "" /\ probed.height > 0)
        => probed.ratio = ExactRatioClass(probed.width, probed.height)

\* The path segment the classification stands for.
PrefixOfClass(aspectRatio) ==
    IF aspectRatio = "16:9" THEN "landscape"
    ELSE IF aspectRatio = "9:16" THEN "portrait"
    ELSE "other"

\* C11: when an upload succeeds, the key of the object it has put is
\* <prefix>/<id>.mp4 with the prefix of the classification the prober gave
\* for the staged file, the object is in the bucket, and the video URL written
\* to the record is https://<bucket>.s3.<region>.amazonaws.com/<that key>;
\* 1280x720 is classified 16:9, whose prefix is landscape.
C11_KeyAndURLFollowClass ==
    [][\A c \in Conns :
          (pc[c] = "update" /\ pc'[c] = "done" /\ resp'[c].code = StatusOK)
              => /\ \E key \in RandomKeys :
                       local[c].objName =
                           PrefixOfClass(local[c].aspectRatio) \o "/"
                               \o EncodeToString(key) \o ".mp4"
                 /\ local[c].objName \in bucket
                 /\ db'[req[c].videoID].VideoURL =
                       "https://" \o s3Bucket \o ".s3." \o s3Region \o ".amazonaws.com/"
                           \o local[c].objName
                 /\ PrefixOfClass(AspectRatioOf(1280, 720)) = "landscape"]_vars

C11_Witness ==
    \E c \in Conns :
        /\ pc[c] = "done" /\ resp[c].code = StatusOK
        /\ db["v1"].VideoURL =
              "https://tubely.s3.us-east-1.amazonaws.com/landscape/"
                  \o "AAAAAAAAAAAAAAAAAAAAAAAAAAAAAAAAAAAAAAAAAAA" \o ".mp4"

\* C12 as stated: no store write of a request targets a key that is already
\* in the bucket.
C12_KeysNeverReused ==
    [][\A c \in Conns :
          (pc[c] = "put" /\ pc'[c] = "update") => local'[c].objName \notin bucket]_vars

\* C12 amended: the objects of the bucket are exactly the names of the
\* <<classification, random key>> pairs put, and two different pairs never
\* share a name: a key is written twice only when the same 32 random bytes
\* are drawn again for the same classification.
C12_KeysDistinctPerDraw ==
    /\ bucket = {ObjName(p[1], p[2], "mp4") : p \in puts}
    /\ \A p, q \in puts : p # q => ObjName(p[1], p[2], "mp4") # ObjName(q[1], q[2], "mp4")
    /\ \A name \in bucket :
          \E prefix \in {"landscape", "portrait", "other"}, key \in RandomKeys :
              name = prefix \o "/" \o EncodeToString(key) \o ".mp4"

C12_Witness == \E p, q \in puts : p # q /\ p[1] = q[1] /\ Cardinality(bucket) = 2

\* The calls of the pipeline that act outside the handler, in their order, and
\* how many of them have been made when the call of a stage fails.
Pipeline == <<"CreateTemp", "ffprobe", "ffmpeg", "PutObject", "UpdateVideo">>
IsPipelinePrefix(t) == Len(t) <= Len(Pipeline) /\ t = SubSeq(Pipeline, 1, Len(t))
CallsMadeAt(fault) ==
    CASE fault = "CreateTemp" -> 0
      [] fault \in {"copy", "seek"} -> 1
      [] fault = "probe" -> 2
      [] fault \in {"remux", "reopen"} -> 3
      [] fault = "put" -> 4
      [] fault = "update" -> 5

\* C13: every stage fails fast: the calls a request has made are a prefix of
\* the pipeline, each made once (nothing is retried); a request whose stage k
\* has failed (media type, staging, seek, probe, remux, reopen, upload,
\* update) has ended with the calls up to stage k only and a 500 (400 for the
\* media type); and a request has a response exactly when it has ended.
C13_FailFast ==
    \A c \in Conns :
        /\ IsPipelinePrefix(trace[c])
        /\ req[c].fault # ""
              => /\ pc[c] = "done"
                 /\ Len(trace[c]) = CallsMadeAt(req[c].fault)
                 /\ resp[c].code = StatusInternalServerError
        /\ ParsedOtherType(c) => (pc[c] = "done" /\ trace[c] = <<>>)
        /\ (pc[c] = "done") <=> (resp[c] # NoResponse)

C13_Witness ==
    \E c \in Conns :
        /\ req[c].fault = "probe" /\ pc[c] = "done"
        /\ bucket = {} /\ tmpDir = {} /\ db["v1"].VideoURL = ""

C16_TempPathsDistinct ==
    /\ \A c, o \in Conns :
          (c # o /\ local[c].staged # "" /\ local[o].staged # "")
              => /\ local[c].staged # local[o].staged
                 /\ OutputFilepath(local[c].staged) # OutputFilepath(local[o].staged)
                 /\ local[c].staged # OutputFilepath(local[o].staged)
    /\ \A c \in Conns :
          /\ pc[c] \in Staging => local[c].staged \in tmpDir
          /\ pc[c] \in {"put", "update"}
                => /\ local[c].processedFilePath = OutputFilepath(local[c].staged)
                   /\ local[c].processedFilePath \in tmpDir

C16_Witness ==
    \E c, o \in Conns :
        /\ c # o
        /\ pc[c] \in {"put", "update"} /\ pc[o] \in {"put", "update"}
        /\ local[c].processedFilePath # local[o].processedFilePath

\* C15 as stated: no state of the process is written by two requests at once
\* without synchronization: no two handlers are inside an assignment to a
\* process-wide variable at the same time, and the runtime never stops the
\* process for it.
C15_NoConcurrentInProcessWrite ==
    /\ ~fatal
    /\ \A t, u \in ThumbConns : t # u => ~(tpc[t] = "storing" /\ tpc[u] = "storing")

\* C17 as stated: the write of a video upload leaves the ThumbnailURL the
\* table holds at that moment as it is, and the write of a thumbnail upload
\* leaves the VideoURL the table holds at that moment as it is.
C17_WriteChangesOwnFieldOnly ==
    [][/\ \A c \in Conns :
             (pc[c] = "update" /\ pc'[c] = "done" /\ resp'[c].code = StatusOK)
                 => \A id \in DOMAIN db : db'[id].ThumbnailURL = db[id].ThumbnailURL
       /\ \A t \in ThumbConns :
             (tpc[t] = "update" /\ tpc'[t] = "done" /\ tresp'[t].code = StatusOK)
                 => \A id \in DOMAIN db : db'[id].VideoURL = db[id].VideoURL]_allVars

\* What a thumbnail request is, by what it carries.
ThumbIdParses(t) == tpc[t] # "idle" /\ uuidParse(treq[t].videoID).err = NoError
ThumbTokenUser(t) == ValidateJWT(GetBearerToken(treq[t].token).token)
ThumbDenied(t) ==
    /\ ThumbIdParses(t)
    /\ \/ ThumbTokenUser(t).err # NoError
       \/ treq[t].videoID \notin DOMAIN db
       \/ db[treq[t].videoID].UserID # ThumbTokenUser(t).userID
ThumbByOwner(t) ==
    /\ ThumbIdParses(t) /\ ThumbTokenUser(t).err = NoError
    /\ treq[t].videoID \in DOMAIN db
    /\ db[treq[t].videoID].UserID = ThumbTokenUser(t).userID

\* C18: in both variants, a thumbnail request whose token is absent or
\* invalid, whose record cannot be fetched or whose caller is not the owner
\* never reaches a write: it writes no entry of the map, no file under the
\* assets root and no update of the record, and does not end in success; a
\* handler that stands at a write or has written serves the owner.
C18_ThumbOwnerBeforeWrites ==
    \A t \in ThumbConns :
        /\ ThumbDenied(t)
              => /\ tpc[t] \in {"fetch", "done"}
                 /\ ttrace[t] = <<>>
                 /\ tresp[t].code # StatusOK
        /\ (tpc[t] \in {"store", "storing", "update"} \/ ttrace[t] # <<>>)
              => ThumbByOwner(t)

C18_Witness ==
    \E t, u \in ThumbConns :
        /\ ThumbIdParses(t) /\ ThumbTokenUser(t).err = NoError
        /\ treq[t].videoID \in DOMAIN db
        /\ db[treq[t].videoID].UserID # ThumbTokenUser(t).userID
        /\ tpc[t] = "done"
        /\ ttrace[u] # <<>>

====
